---- MODULE Spec2Model ----
(***************************************************************************)
(* PersonalAssistantOrchestrator (src/personal_assistant.py): routing of   *)
(* an instruction to the capable agents, execution of the batch, learning  *)
(* from the executions and persistence of the learning data.               *)
(*                                                                         *)
(* Python values are modelled as follows.                                  *)
(*   str            a sequence of one-character strings                    *)
(*   dict           an association list <<key, value>> in insertion order  *)
(*   Optional[x]    << >> for None, <<x>> for a value                      *)
(*   float          an exact fraction <<n, d>>, d > 0, in lowest terms     *)
(* process_instruction() is a coroutine: it can be suspended only inside   *)
(* `await agent.execute(...)`, so one action covers everything between two *)
(* such suspension points.                                                 *)
(***************************************************************************)
EXTENDS Integers, Sequences, FiniteSets, TLC

\* ------------------------------------------------------------------ bounds
\* number of process_instruction() coroutines that may be in flight at once
NumCalls == 2
\* total number of process_instruction() calls started in a behaviour
MaxCalls == 2

Calls == 1..NumCalls

\* ------------------------------------------------------------- str helpers
\* instruction.instruction[:50]
PrefixLen == 50

Min(a, b) == IF a < b THEN a ELSE b

Take(s, n) == SubSeq(s, 1, Min(n, Len(s)))

LowerChar(ch) ==
    CASE ch = "L" -> "l"
      [] ch = "S" -> "s"
      [] ch = "U" -> "u"
      [] OTHER -> ch

\* str.lower()
Lower(s) == [i \in 1..Len(s) |-> LowerChar(s[i])]

\* `kw in s`
Contains(s, kw) ==
    \E i \in 0..(Len(s) - Len(kw)) : SubSeq(s, i + 1, i + Len(kw)) = kw

\* position of the first occurrence of ch in s, 0 when there is none
RECURSIVE IndexFrom(_, _, _)
IndexFrom(s, ch, i) ==
    IF i > Len(s) THEN 0
    ELSE IF s[i] = ch THEN i
    ELSE IndexFrom(s, ch, i + 1)

\* s.split(ch, 1)
Split1(s, ch) ==
    LET p == IndexFrom(s, ch, 1)
    IN  IF p = 0 THEN <<s>>
        ELSE <<SubSeq(s, 1, p - 1), SubSeq(s, p + 1, Len(s))>>

\* ------------------------------------------------------------ dict helpers
HasKey(d, k) == \E i \in 1..Len(d) : d[i][1] = k

KeyIndex(d, k) == CHOOSE i \in 1..Len(d) : d[i][1] = k

Get(d, k) == d[KeyIndex(d, k)][2]

\* d[k] = v : an existing key keeps its position, a new key goes last
Put(d, k, v) ==
    IF HasKey(d, k)
    THEN [d EXCEPT ![KeyIndex(d, k)] = <<k, v>>]
    ELSE Append(d, <<k, v>>)

\* ----------------------------------------------------------- float helpers
RECURSIVE Gcd(_, _)
Gcd(a, b) == IF b = 0 THEN a ELSE Gcd(b, a % b)

\* the fraction n/d (n >= 0, d > 0) in lowest terms
Norm(n, d) == IF n = 0 THEN <<0, 1>> ELSE <<n \div Gcd(n, d), d \div Gcd(n, d)>>

Frac(n) == <<n, 1>>
FAdd(x, y) == Norm(x[1] * y[2] + y[1] * x[2], x[2] * y[2])
FMul(x, y) == Norm(x[1] * y[1], x[2] * y[2])
\* x / k for an int k > 0
FDivInt(x, k) == Norm(x[1], x[2] * k)
\* x > y
FGreater(x, y) == x[1] * y[2] > y[1] * x[2]

None == << >>
Some(x) == <<x>>

\* ------------------------------------------------------------------ agents
\* BaseAgent.name of the two agents of _initialize_agents
SystemAgentName == <<"S", "y", "s", "t", "e", "m", "A", "g", "e", "n", "t">>
BrowserAgentName == <<"B", "r", "o", "w", "s", "e", "r", "A", "g", "e", "n", "t">>

\* SystemAgent.can_handle: keywords
SystemKeywords ==
    { <<"f", "i", "l", "e">>,
      <<"d", "i", "r", "e", "c", "t", "o", "r", "y">>,
      <<"f", "o", "l", "d", "e", "r">>,
      <<"d", "e", "s", "k", "t", "o", "p">>,
      <<"l", "s">>,
      <<"f", "i", "n", "d">>,
      <<"s", "e", "a", "r", "c", "h">>,
      <<"t", "e", "r", "m", "i", "n", "a", "l">>,
      <<"c", "o", "m", "m", "a", "n", "d">>,
      <<"s", "y", "s", "t", "e", "m">>,
      <<"c", "h", "e", "c", "k">>,
      <<"e", "x", "i", "s", "t", "s">> }

\* BrowserAgent.can_handle: keywords
BrowserKeywords ==
    { <<"b", "r", "o", "w", "s", "e", "r">>,
      <<"c", "h", "r", "o", "m", "e">>,
      <<"f", "i", "r", "e", "f", "o", "x">>,
      <<"w", "e", "b", "s", "i", "t", "e">>,
      <<"l", "o", "g", "i", "n">>,
      <<"g", "m", "a", "i", "l">>,
      <<"e", "m", "a", "i", "l">>,
      <<"w", "e", "b">>,
      <<"n", "a", "v", "i", "g", "a", "t", "e">>,
      <<"c", "l", "i", "c", "k">>,
      <<"o", "p", "e", "n">>,
      <<"u", "r", "l">> }

\* ------------------------------------------------------- instruction texts
\* 48 characters of padding: "Ls" \o Padding is exactly PrefixLen characters
Padding == [i \in 1..48 |-> "a"]
TextNone == <<"x", "y", "z", "z", "y">>
\* claimed by SystemAgent ("ls")
TextLongB == <<"L", "s">> \o Padding \o <<"b">>
\* same first 50 characters, claimed by SystemAgent and BrowserAgent ("url")
TextLongUrl == <<"L", "s">> \o Padding \o <<"u", "r", "l">>
\* same first 50 characters, claimed by SystemAgent and BrowserAgent ("gmail")
TextLongGmail == <<"L", "s">> \o Padding \o <<"g", "m", "a", "i", "l">>
Texts == {TextNone, TextLongB, TextLongUrl, TextLongGmail}

\* agents when _initialize_agents adds to the list a SystemAgent it already holds
agents_Reregistered == <<SystemAgentName, BrowserAgentName, SystemAgentName>>

\* self.agents after _initialize_agents: the agents' names, in list order
agents == <<SystemAgentName, BrowserAgentName>>

\* agent.can_handle(instruction)
can_handle(name, t) ==
    LET low == Lower(t)
    IN  IF name = SystemAgentName
        THEN \E kw \in SystemKeywords : Contains(low, kw)
        ELSE \E kw \in BrowserKeywords : Contains(low, kw)

\* the loop that builds capable_agents: positions in self.agents, in order
RECURSIVE CapableFrom(_, _)
CapableFrom(t, i) ==
    IF i > Len(agents) THEN << >>
    ELSE IF can_handle(agents[i], t)
         THEN <<i>> \o CapableFrom(t, i + 1)
         ELSE CapableFrom(t, i + 1)

\* capable_agents when the loop stops at the first capable agent
capable_agents_FirstOnly(t) == Take(CapableFrom(t, 1), 1)

capable_agents(t) == CapableFrom(t, 1)

\* ---------------------------------------------------------------- learning
\* the dict _load_learning_data returns when there is nothing to load
DefaultLearningData ==
    << <<"user_patterns", << >> >>,
       <<"successful_commands", << >> >>,
       <<"failed_commands", << >> >> >>

\* NewPattern that already counts one use
NewPattern_CountOne ==
    [count |-> 1, success_rate |-> Frac(0),
     avg_execution_time |-> Frac(0), last_used |-> None]

\* the pattern _learn_from_execution creates for a new key
NewPattern ==
    [count |-> 0, success_rate |-> Frac(0),
     avg_execution_time |-> Frac(0), last_used |-> None]

\* PatternKey without the slice: the whole instruction text goes into the key
PatternKey_WholeText(name, t) == name \o <<"_">> \o t

\* f"{agent.name}_{instruction.instruction[:50]}"
PatternKey(name, t) == name \o <<"_">> \o Take(t, PrefixLen)

\* `if result.execution_time:` is false for None and for 0.0
Truthy(execution_time) ==
    execution_time # None /\ execution_time[1] # Frac(0)

\* self.learning_data['user_patterns'] raises KeyError
LearnRaises(ld) == ~HasKey(ld, "user_patterns")

\* EnsurePattern without the membership test: the pattern is reset on every use
EnsurePattern_Reset(ups, key) == Put(ups, key, NewPattern)

\* `if pattern_key not in ...: ... = {'count': 0, ...}`
EnsurePattern(ups, key) ==
    IF HasKey(ups, key) THEN ups ELSE Append(ups, <<key, NewPattern>>)

\* (avg_execution_time * (count - 1) + execution_time) / count
AvgUpdate(avg, cnt, et) == FDivInt(FAdd(FMul(avg, Frac(cnt - 1)), et), cnt)

\* SuccessRateUpdate weighting the old rate by count instead of count - 1
SuccessRateUpdate_NoDecrement(rate, cnt) ==
    FDivInt(FAdd(FMul(rate, Frac(cnt)), Frac(1)), cnt)

\* (success_rate * (count - 1) + 1.0) / count
SuccessRateUpdate(rate, cnt) == FDivInt(FAdd(FMul(rate, Frac(cnt - 1)), Frac(1)), cnt)

\* LearnFrom without the update of success_rate
LearnFrom_RateKept(ld, name, t, success, execution_time, time) ==
    LET key == PatternKey(name, t)
        ups == EnsurePattern(Get(ld, "user_patterns"), key)
        p0 == Get(ups, key)
        cnt == p0.count + 1
        p1 == [p0 EXCEPT !.count = cnt, !.last_used = Some(time)]
        p2 == IF Truthy(execution_time)
              THEN [p1 EXCEPT !.avg_execution_time =
                       AvgUpdate(p1.avg_execution_time, cnt, execution_time[1])]
              ELSE p1
    IN  Put(ld, "user_patterns", Put(ups, key, p2))

\* _learn_from_execution when it does not raise: the new learning_data
LearnFrom(ld, name, t, success, execution_time, time) ==
    LET key == PatternKey(name, t)
        ups == EnsurePattern(Get(ld, "user_patterns"), key)
        p0 == Get(ups, key)
        cnt == p0.count + 1
        p1 == [p0 EXCEPT !.count = cnt, !.last_used = Some(time)]
        p2 == IF Truthy(execution_time)
              THEN [p1 EXCEPT !.avg_execution_time =
                       AvgUpdate(p1.avg_execution_time, cnt, execution_time[1])]
              ELSE p1
        p3 == IF success
              THEN [p2 EXCEPT !.success_rate = SuccessRateUpdate(p2.success_rate, cnt)]
              ELSE p2
    IN  Put(ld, "user_patterns", Put(ups, key, p3))

\* ------------------------------------------------------------- suggestions
NumBuiltin == 5
TopN == 5

BuiltinSuggestions == [i \in 1..NumBuiltin |-> [kind |-> "try", n |-> i, frag |-> << >>]]

\* f"Similar to: '{original}...'"
SimilarTo(original) == [kind |-> "similar", n |-> 0, frag |-> original]

\* the patterns the loop of _get_instruction_suggestions appends, in dict order
RECURSIVE LearnedFrom(_, _)
LearnedFrom(ups, i) ==
    IF i > Len(ups) THEN << >>
    ELSE IF FGreater(ups[i][2].success_rate, <<4, 5>>)
         THEN <<SimilarTo(Split1(ups[i][1], "_")[2])>> \o LearnedFrom(ups, i + 1)
         ELSE LearnedFrom(ups, i + 1)

\* KeyError on 'user_patterns', IndexError on a key without '_'
SuggestionsRaises(ld) ==
    \/ ~HasKey(ld, "user_patterns")
    \/ \E i \in 1..Len(Get(ld, "user_patterns")) :
          /\ FGreater(Get(ld, "user_patterns")[i][2].success_rate, <<4, 5>>)
          /\ Len(Split1(Get(ld, "user_patterns")[i][1], "_")) < 2

\* get_instruction_suggestions with the learned suggestions before the
\* built-in ones
get_instruction_suggestions_LearnedFirst(ld) ==
    Take(LearnedFrom(Get(ld, "user_patterns"), 1) \o BuiltinSuggestions, TopN)

\* _get_instruction_suggestions when it does not raise
get_instruction_suggestions(ld) ==
    Take(BuiltinSuggestions \o LearnedFrom(Get(ld, "user_patterns"), 1), TopN)

\* -------------------------------------------------------- the durable store
\* json.dump of Optional[str]
JsonOfOptional(x) == IF x = None THEN [t |-> "null", v |-> 0] ELSE [t |-> "string", v |-> x[1]]
\* json.load of null or a string
OptionalOfJson(j) == IF j.t = "null" THEN None ELSE Some(j.v)

JsonOfPattern(p) ==
    [count |-> p.count, success_rate |-> p.success_rate,
     avg_execution_time |-> p.avg_execution_time,
     last_used |-> JsonOfOptional(p.last_used)]

PatternOfJson(j) ==
    [count |-> j.count, success_rate |-> j.success_rate,
     avg_execution_time |-> j.avg_execution_time,
     last_used |-> OptionalOfJson(j.last_used)]

\* JsonDump that writes every value as an empty dict
JsonDump_NoPatterns(ld) == [i \in 1..Len(ld) |-> <<ld[i][1], << >> >>]

\* json.dump(self.learning_data, f, indent=2): the document written
JsonDump(ld) ==
    [i \in 1..Len(ld) |->
        <<ld[i][1],
          IF ld[i][1] = "user_patterns"
          THEN [k \in 1..Len(ld[i][2]) |-> <<ld[i][2][k][1], JsonOfPattern(ld[i][2][k][2])>>]
          ELSE ld[i][2]>>]

\* json.load(f) of a document that parses
JsonLoad(doc) ==
    [i \in 1..Len(doc) |->
        <<doc[i][1],
          IF doc[i][1] = "user_patterns"
          THEN [k \in 1..Len(doc[i][2]) |-> <<doc[i][2][k][1], PatternOfJson(doc[i][2][k][2])>>]
          ELSE doc[i][2]>>]

AbsentFile == [kind |-> "absent", doc |-> << >>]
\* a file json.load rejects (empty, truncated or not JSON)
CorruptFile == [kind |-> "corrupt", doc |-> << >>]
JsonFile(doc) == [kind |-> "json", doc |-> doc]

\* load_learning_data that never reads the file: every run starts fresh
load_learning_data_Fresh(f) == DefaultLearningData

\* _load_learning_data
load_learning_data(f) ==
    IF f.kind = "json" THEN JsonLoad(f.doc) ELSE DefaultLearningData

\* a learning file left by earlier runs: one pattern, count 2, rate 0.5
StoredPattern ==
    [count |-> 2, success_rate |-> <<1, 2>>,
     avg_execution_time |-> Frac(2), last_used |-> Some(0)]

StoredLearningData ==
    << <<"user_patterns", << <<PatternKey(SystemAgentName, TextLongB), StoredPattern>> >> >>,
       <<"successful_commands", << >> >>,
       <<"failed_commands", << >> >> >>

\* what /tmp/assistant_learning.json can hold when the orchestrator is built:
\* nothing, text that is not JSON, the JSON document {}, an earlier save
InitialFiles ==
    {AbsentFile, CorruptFile, JsonFile(<< >>), JsonFile(JsonDump(StoredLearningData))}

\* how `with open(learning_file, 'w') as f: json.dump(...)` can end: written, or
\* an OSError while writing, after open() has truncated the file
IoOutcomes == {"ok", "write_error"}

\* FileAfterSave without the write: the file is left as it was
FileAfterSave_Skipped(f, ld, on, io) == f

\* _save_learning_data: the file afterwards
FileAfterSave(f, ld, on, io) ==
    IF ~on THEN f
    ELSE IF io = "ok" THEN JsonFile(JsonDump(ld))
    ELSE CorruptFile

\* _save_learning_data raises (nothing in it catches OSError)
SaveRaises(on, io) == on /\ io # "ok"

\* -------------------------------------------------------- agent executions
\* str(e) of the exceptions an execute() raises
FaultMessages == {"boom", ""}
\* error of a failed AgentResponse
FailErrors == {"Command execution timed out"}
\* AgentResponse.execution_time of a successful response
Durations == {Some(Frac(0)), Some(Frac(2))}
\* AgentResponse.execution_time of a BrowserAgent response whose success is
\* all(r.get('success', False) for r in results) = False: no error is set
UnreportedDurations == {Some(Frac(2))}

\* BrowserAgent._parse_instruction_to_actions: the types of the actions, in
\* the order they are appended
parse_instruction_to_actions(t) ==
    LET low == Lower(t)
        When(b, a) == IF b THEN <<a>> ELSE << >>
    IN  When(Contains(low, <<"c", "h", "r", "o", "m", "e">>)
               \/ Contains(low, <<"b", "r", "o", "w", "s", "e", "r">>),
             "open_browser chrome")
        \o When(Contains(low, <<"f", "i", "r", "e", "f", "o", "x">>),
                "open_browser firefox")
        \o When(Contains(low, <<"g", "m", "a", "i", "l">>), "navigate")
        \o When(Contains(low, <<"l", "o", "g", "i", "n">>), "login")
        \o When(Contains(low, <<"f", "i", "r", "s", "t", " ", "e", "m", "a", "i", "l">>)
                  \/ Contains(low, <<"f", "i", "r", "s", "t", " ", "m", "a", "i", "l">>),
                "click_first_email")

\* all(r.get('success', False) for r in results): flags[i] is the value of
\* r.get('success', False) for the result of the i-th action
BrowserSuccess(flags) == \A i \in 1..Len(flags) : flags[i]

\* the values of AgentResponse.success that the normal path of
\* BrowserAgent.execute can report for instruction text t, each action
\* succeeding or failing
BrowserReports(t) ==
    {BrowserSuccess(flags) :
        flags \in [1..Len(parse_instruction_to_actions(t)) -> BOOLEAN]}

\* execute() of agent `name` on text t can end with oc: a response without
\* error and with success = False comes from BrowserAgent only (SystemAgent
\* sets an error on each of its failures), and BrowserAgent's responses
\* without error report all() of the flags of the actions of t
CanEndWith(name, t, oc) ==
    (oc.kind = "response" /\ oc.error = None) =>
        IF name = BrowserAgentName
        THEN oc.success \in BrowserReports(t)
        ELSE oc.success

\* how `await agent.execute(instruction)` can end: an AgentResponse or a raise.
\* SystemAgent and BrowserAgent turn the exceptions of their own work into a
\* failed AgentResponse; process_instruction calls execute() of whatever
\* BaseAgent self.agents holds and has its own `except Exception` for a raise
ExecOutcomes ==
    {[kind |-> "response", success |-> TRUE, error |-> None, execution_time |-> et] :
        et \in Durations}
    \cup {[kind |-> "response", success |-> FALSE, error |-> Some(e), execution_time |-> None] :
        e \in FailErrors}
    \cup {[kind |-> "response", success |-> FALSE, error |-> None, execution_time |-> et] :
        et \in UnreportedDurations}
    \cup {[kind |-> "raise", success |-> FALSE, error |-> Some(m), execution_time |-> None] :
        m \in FaultMessages}

AsdictKeys == {"agent_name", "success", "result", "error", "execution_time", "metadata"}
FaultKeys == {"success", "error"}

\* {'agent': agent.name, 'result': asdict(result)}
ResponseEntry(name, oc) ==
    [agent |-> name,
     result |-> [keys |-> AsdictKeys, success |-> oc.success, error |-> oc.error,
                 execution_time |-> oc.execution_time]]

\* {'agent': agent.name, 'result': {'success': False, 'error': str(e)}}
FaultEntry(name, msg) ==
    [agent |-> name,
     result |-> [keys |-> FaultKeys, success |-> FALSE, error |-> Some(msg),
                 execution_time |-> None]]

\* str(KeyError('user_patterns'))
KeyErrorMessage == "'user_patterns'"

\* AnySuccess with all() in place of any()
AnySuccess_All(rs) == \A i \in 1..Len(rs) : rs[i].result.success

\* any(r['result']['success'] for r in results)
AnySuccess(rs) == \E i \in 1..Len(rs) : rs[i].result.success

\* the returned dict: its keys, and the values that are not the call's
\* instruction_text (key 'instruction') or its results list (key 'results')
NoOutcome ==
    [keys |-> {}, success |-> FALSE, suggestions |-> << >>, timestamp |-> None]

\* the dict returned when no agent is capable
NoMatchOutcome(sugg) ==
    [keys |-> {"success", "message", "instruction", "suggestions"},
     success |-> FALSE, suggestions |-> sugg, timestamp |-> None]

\* the dict returned after the batch
CompletedOutcome(rs, time) ==
    [keys |-> {"success", "instruction", "results", "timestamp"},
     success |-> AnySuccess(rs), suggestions |-> << >>, timestamp |-> Some(time)]

\* `timestamp: datetime = datetime.now()`: the default of the dataclass field
\* is evaluated once, when the class TaskInstruction is defined (at import,
\* instant 0), and process_instruction passes no timestamp
DefaultTimestamp == 0

\* NextPosition when the loop stays on the same agent
NextPosition_Same(i) == i

\* the loop `for agent in capable_agents` goes from one position to the next
NextPosition(i) == i + 1

\* the loop over capable_agents ends after the first agent
IsLast_AfterFirst(i, capable) == TRUE

\* the agent at position i is the last of capable_agents
IsLast(i, capable) == i = Len(capable)

\* the pairs (agent.name, instruction_text[:50]) of the executions
ExecutionKeys ==
    {<<agents[i], Take(t, PrefixLen)>> : i \in 1..Len(agents), t \in Texts}

\* ------------------------------------------------------------------- state
VARIABLES
    now,            \* the wall clock (datetime.now()): every call of
                    \* process_instruction() starts at a later instant
    file,           \* content of config['learning']['data_file']
    writes,         \* number of times the file was opened for writing
    enabled,        \* config['learning']['enabled']
    learning_data,  \* self.learning_data
    started,        \* number of process_instruction() calls made so far
    pc,             \* per call: "idle", "awaiting", "returned", "raised"
    text,           \* per call: instruction_text
    claims,         \* per call: capable_agents, as positions in self.agents
    idx,            \* per call: position in capable_agents of the agent executing
    results,        \* per call: results
    outcome,        \* per call: the dict returned
    executed,       \* per call: how each execute() of the batch ended
    observed,       \* per call: positions whose result reached _learn_from_execution
    instruction_timestamp,  \* per call: instruction.timestamp
    loaded,         \* what _load_learning_data returned at construction
    succeeded       \* per (agent name, text prefix): executions that returned
                    \* success = True so far

vars == <<now, file, writes, enabled, learning_data, started, pc, text, claims,
          idx, results, outcome, executed, observed, instruction_timestamp,
          loaded, succeeded>>

\* PersonalAssistantOrchestrator.__init__ on any of the initial files
Init ==
    /\ now = 0
    /\ file \in InitialFiles
    /\ writes = 0
    /\ enabled \in BOOLEAN
    /\ learning_data = load_learning_data(file)
    /\ started = 0
    /\ pc = [c \in Calls |-> "idle"]
    /\ text = [c \in Calls |-> << >>]
    /\ claims = [c \in Calls |-> << >>]
    /\ idx = [c \in Calls |-> 0]
    /\ results = [c \in Calls |-> << >>]
    /\ outcome = [c \in Calls |-> NoOutcome]
    /\ executed = [c \in Calls |-> << >>]
    /\ observed = [c \in Calls |-> << >>]
    /\ instruction_timestamp = [c \in Calls |-> None]
    /\ loaded = load_learning_data(file)
    /\ succeeded = [k \in ExecutionKeys |-> 0]

\* process_instruction(t) up to its first suspension: routing, then either the
\* no-match return or the start of the first capable agent's execute()
\* (a call is numbered by the lowest position no suspended call holds)
Process(c, t) ==
    /\ pc[c] \in {"idle", "returned", "raised"}
    /\ \A d \in Calls : d < c => pc[d] = "awaiting"
    /\ started < MaxCalls
    /\ started' = started + 1
    /\ now' = now + 1
    /\ LET capable == capable_agents(t)
       IN  /\ text' = [text EXCEPT ![c] = t]
           /\ claims' = [claims EXCEPT ![c] = capable]
           /\ results' = [results EXCEPT ![c] = << >>]
           /\ executed' = [executed EXCEPT ![c] = << >>]
           /\ observed' = [observed EXCEPT ![c] = << >>]
           /\ instruction_timestamp' =
                 [instruction_timestamp EXCEPT ![c] = Some(DefaultTimestamp)]
           /\ IF capable = << >>
              THEN /\ idx' = [idx EXCEPT ![c] = 0]
                   /\ IF SuggestionsRaises(learning_data)
                      THEN /\ pc' = [pc EXCEPT ![c] = "raised"]
                           /\ outcome' = [outcome EXCEPT ![c] = NoOutcome]
                      ELSE /\ pc' = [pc EXCEPT ![c] = "returned"]
                           /\ outcome' = [outcome EXCEPT ![c] =
                                 NoMatchOutcome(get_instruction_suggestions(learning_data))]
              ELSE /\ idx' = [idx EXCEPT ![c] = 1]
                   /\ pc' = [pc EXCEPT ![c] = "awaiting"]
                   /\ outcome' = [outcome EXCEPT ![c] = NoOutcome]
    /\ UNCHANGED <<file, writes, enabled, learning_data, loaded, succeeded>>

\* Learns without the test of result.success
Learns_AnyResponse(oc) == oc.kind = "response"

\* `if result.success:` lets the result reach _learn_from_execution
Learns(oc) == oc.kind = "response" /\ oc.success

\* results after the body of the try statement for one agent: a KeyError of
\* _learn_from_execution is raised after results.append and caught by the
\* same `except Exception`
ResultsAfter(rs, name, oc, ld) ==
    IF oc.kind = "raise"
    THEN Append(rs, FaultEntry(name, oc.error[1]))
    ELSE IF Learns(oc) /\ LearnRaises(ld)
         THEN Append(Append(rs, ResponseEntry(name, oc)), FaultEntry(name, KeyErrorMessage))
         ELSE Append(rs, ResponseEntry(name, oc))

\* LearningAfter when nothing is learned inside the loop
LearningAfter_NotInLoop(ld, name, t, oc, time) == ld

\* learning_data after the body of the try statement for one agent
LearningAfter(ld, name, t, oc, time) ==
    IF Learns(oc) /\ ~LearnRaises(ld)
    THEN LearnFrom(ld, name, t, oc.success, oc.execution_time, time)
    ELSE ld

\* the execute() a call is suspended in ends with oc: the rest of that loop
\* iteration, then the next agent's execute() starts or, after the last
\* agent, _save_learning_data (ending with io) and the return
ExecuteReturns(c, oc, io) ==
    /\ pc[c] = "awaiting"
    /\ CanEndWith(agents[claims[c][idx[c]]], text[c], oc)
    /\ LET name == agents[claims[c][idx[c]]]
           rs == ResultsAfter(results[c], name, oc, learning_data)
           ld == LearningAfter(learning_data, name, text[c], oc, now)
           last == IsLast(idx[c], claims[c])
       IN  /\ results' = [results EXCEPT ![c] = rs]
           /\ learning_data' = ld
           /\ executed' = [executed EXCEPT ![c] =
                 Append(@, [claim |-> idx[c], kind |-> oc.kind, success |-> oc.success])]
           /\ observed' = [observed EXCEPT ![c] =
                 IF Learns(oc) THEN Append(@, idx[c]) ELSE @]
           /\ succeeded' =
                 IF oc.kind = "response" /\ oc.success
                 THEN [succeeded EXCEPT ![<<name, Take(text[c], PrefixLen)>>] = @ + 1]
                 ELSE succeeded
           /\ IF ~last
              THEN /\ io = "ok"
                   /\ idx' = [idx EXCEPT ![c] = NextPosition(idx[c])]
                   /\ UNCHANGED <<pc, outcome, file, writes>>
              ELSE /\ (~enabled => io = "ok")
                   /\ file' = FileAfterSave(file, ld, enabled, io)
                   /\ writes' = IF enabled THEN writes + 1 ELSE writes
                   /\ UNCHANGED idx
                   /\ IF SaveRaises(enabled, io)
                      THEN /\ pc' = [pc EXCEPT ![c] = "raised"]
                           /\ UNCHANGED outcome
                      ELSE /\ pc' = [pc EXCEPT ![c] = "returned"]
                           /\ outcome' = [outcome EXCEPT ![c] =
                                 CompletedOutcome(rs, now)]
    /\ UNCHANGED <<now, enabled, started, text, claims, instruction_timestamp, loaded>>

Next ==
    \/ \E c \in Calls, t \in Texts : Process(c, t)
    \/ \E c \in Calls, oc \in ExecOutcomes, io \in IoOutcomes : ExecuteReturns(c, oc, io)

Spec == Init /\ [][Next]_vars

\* ================================================================== claims
\* the table self.learning_data['user_patterns'], empty when the key is missing
Patterns(ld) == IF HasKey(ld, "user_patterns") THEN Get(ld, "user_patterns") ELSE << >>

\* call c has returned a dict
Returned(c) == pc[c] = "returned"

\* positions in results[c] of the entries of the agent claimed at position j
EntriesOf(c, j) ==
    {i \in 1..Len(results[c]) : results[c][i].agent = agents[claims[c][j]]}

\* C1: in the outcome returned by a process() call with at least one claiming
\* provider, results has exactly one entry per claim and the i-th entry
\* belongs to the i-th claiming provider.
C1_OneEntryPerClaim ==
    \A c \in Calls :
        (Returned(c) /\ claims[c] # << >>) =>
            /\ "results" \in outcome[c].keys
            /\ Len(results[c]) = Len(claims[c])
            /\ \A i \in 1..Len(claims[c]) :
                  i <= Len(results[c]) /\ results[c][i].agent = agents[claims[c][i]]

\* C2: in every returned outcome, overall success is true if and only if at
\* least one entry of results has success = true.
C2_SuccessIffAnyResult ==
    \A c \in Calls :
        Returned(c) =>
            (outcome[c].success <=>
                /\ "results" \in outcome[c].keys
                /\ \E i \in 1..Len(results[c]) : results[c][i].result.success = TRUE)

\* C2 witness: a returned batch of two results [false, true], overall true
C2_Witness ==
    \E c \in Calls :
        /\ Returned(c)
        /\ Len(results[c]) = 2
        /\ ~results[c][1].result.success
        /\ results[c][2].result.success
        /\ outcome[c].success

\* C3: once a claimed provider's execute() has raised, process() does not
\* abort: the providers later in claim order are executed and the call
\* returns an outcome, whose overall success is true if a provider succeeded.
C3_FaultDoesNotAbort ==
    \A c \in Calls :
        (\E i \in 1..Len(executed[c]) : executed[c][i].kind = "raise") =>
            /\ pc[c] \in {"awaiting", "returned"}
            /\ pc[c] = "awaiting" => idx[c] = Len(executed[c]) + 1
            /\ Returned(c) =>
                  /\ Len(executed[c]) = Len(claims[c])
                  /\ outcome[c].success <=>
                        \E j \in 1..Len(executed[c]) : executed[c][j].success

\* the j-th execute() of call c raised, or returned the failure of a time-out
ThrewOrTimedOut(c, j) ==
    \/ executed[c][j].kind = "raise"
    \/ /\ executed[c][j].kind = "response"
       /\ ~executed[c][j].success
       /\ \E i \in EntriesOf(c, j) :
             results[c][i].result.error \in {Some(e) : e \in FailErrors}

\* C4: in a returned batch where one provider threw or timed out and another
\* succeeded, the failing provider's entry has success = false and a
\* non-empty error, the succeeding provider's entry has success = true and
\* no error.
C4_FailedAndSucceededEntries ==
    \A c \in Calls :
        ( /\ Returned(c)
          /\ \E j \in 1..Len(executed[c]) : ThrewOrTimedOut(c, j)
          /\ \E j \in 1..Len(executed[c]) : executed[c][j].success ) =>
            \A j \in 1..Len(executed[c]) : \A i \in EntriesOf(c, j) :
                IF executed[c][j].success
                THEN /\ results[c][i].result.success
                     /\ results[c][i].result.error = None
                ELSE ThrewOrTimedOut(c, j) =>
                     /\ ~results[c][i].result.success
                     /\ results[c][i].result.error # None
                     /\ results[c][i].result.error[1] # ""

\* C5: when no provider claims the instruction, process() returns at once in
\* the NoMatch state: no execute() is invoked, the learning table is
\* unchanged and the durable store is not written.
C5_NoMatchReturnsWithoutEffects ==
    [][\A c \in Calls : \A t \in Texts :
          (Process(c, t) /\ capable_agents(t) = << >>) =>
              /\ pc'[c] = "returned"
              /\ "suggestions" \in outcome'[c].keys
              /\ executed'[c] = << >>
              /\ learning_data' = learning_data
              /\ file' = file
              /\ writes' = writes]_vars

\* C6: the outcome of the no-match path has success = false, results = the
\* empty sequence, and between 1 and 5 suggestions.
C6_NoMatchOutcome ==
    \A c \in Calls :
        (Returned(c) /\ claims[c] = << >>) =>
            /\ ~outcome[c].success
            /\ "results" \in outcome[c].keys
            /\ results[c] = << >>
            /\ Len(outcome[c].suggestions) >= 1
            /\ Len(outcome[c].suggestions) <= 5

\* x - y for fractions x >= y
FSub(x, y) == Norm(x[1] * y[2] - y[1] * x[2], x[2] * y[2])

\* old + (s - old) / cnt for s = 1 (a success) or s = 0 (a failure), 0 <= old <= 1
RateStep(old, s, cnt) ==
    IF s = 1
    THEN FAdd(old, FDivInt(FSub(Frac(1), old), cnt))
    ELSE FSub(old, FDivInt(old, cnt))

\* old + (d - old) / cnt
MeanStep(old, d, cnt) ==
    IF FGreater(old, d)
    THEN FSub(old, FDivInt(FSub(old, d), cnt))
    ELSE FAdd(old, FDivInt(FSub(d, old), cnt))

\* the pattern of key k in table ups, the new pattern when there is none
PatternOr(ups, k) == IF HasKey(ups, k) THEN Get(ups, k) ELSE NewPattern

\* this step ends an execute() of call c
Executes(c) == pc[c] = "awaiting" /\ Len(executed'[c]) = Len(executed[c]) + 1

\* how the execute() ended that this step of call c ends
Ended(c) == executed'[c][Len(executed'[c])]

\* the pattern key of the execute() that this step of call c ends
EndedKey(c) == PatternKey(agents[claims[c][idx[c]]], text[c])

\* C7 (as stated): observe() is called once for each result of the batch,
\* whether the provider succeeded, failed or raised.
C7_ObserveEveryResult ==
    \A c \in Calls : Len(observed[c]) = Len(executed[c])

\* C7 (amended): observe() is called once for each provider that returned
\* success = true and for no other; an execution that failed or raised
\* leaves the learning data unchanged.
C7_ObserveSuccessOnly ==
    [][\A c \in Calls :
          Executes(c) =>
              IF Ended(c).kind = "response" /\ Ended(c).success
              THEN observed'[c] = Append(observed[c], Ended(c).claim)
              ELSE /\ observed'[c] = observed[c]
                   /\ learning_data' = learning_data]_vars

\* C7 witness: a batch whose first provider failed and whose second
\* succeeded; only the second has a pattern
C7_Witness ==
    \E c \in Calls :
        /\ Returned(c)
        /\ Len(executed[c]) = 2
        /\ ~executed[c][1].success
        /\ executed[c][2].success
        /\ observed[c] = <<2>>
        /\ HasKey(Patterns(learning_data), PatternKey(BrowserAgentName, text[c]))
        /\ ~HasKey(Patterns(learning_data), PatternKey(SystemAgentName, text[c]))

\* C8 (as stated): every result, successful (s = 1) or failed (s = 0), sets
\* the success rate of its pattern to old + (s - old) / count, count being
\* the value after the increment.
C8_RateAfterEveryResult ==
    [][\A c \in Calls :
          (Executes(c) /\ HasKey(learning_data, "user_patterns")) =>
              LET old == PatternOr(Patterns(learning_data), EndedKey(c))
                  s == IF Ended(c).success THEN 1 ELSE 0
              IN  /\ HasKey(Patterns(learning_data'), EndedKey(c))
                  /\ Get(Patterns(learning_data'), EndedKey(c)).count = old.count + 1
                  /\ Get(Patterns(learning_data'), EndedKey(c)).success_rate =
                        RateStep(old.success_rate, s, old.count + 1)]_vars

\* C8 (amended): every update of a pattern increments its count and sets its
\* success rate to old + (1 - old) / count, count being the value after the
\* increment (from count = 2, rate = 0.5 a success gives 2/3); a failed or
\* raised execution leaves every pattern's count and success rate unchanged.
C8_RateAfterSuccess ==
    [][/\ \A i \in 1..Len(Patterns(learning_data')) :
             LET k == Patterns(learning_data')[i][1]
                 new == Patterns(learning_data')[i][2]
                 old == PatternOr(Patterns(learning_data), k)
             IN  IF new.count = old.count
                 THEN new.success_rate = old.success_rate
                 ELSE /\ new.count = old.count + 1
                      /\ new.success_rate = RateStep(old.success_rate, 1, new.count)
                      /\ (old.count = 2 /\ old.success_rate = <<1, 2>>) =>
                            new.success_rate = <<2, 3>>
       /\ \A c \in Calls :
             (Executes(c) /\ ~Ended(c).success) =>
                 Patterns(learning_data') = Patterns(learning_data)]_vars

\* C8 witness: the stored pattern (count 2, rate 1/2) after one more success
C8_Witness ==
    \E i \in 1..Len(Patterns(learning_data)) :
        /\ Patterns(learning_data)[i][2].count = 3
        /\ Patterns(learning_data)[i][2].success_rate = <<2, 3>>

\* C9: every observe() sets the average duration of its pattern to
\* old + (d - old) / count, count being the value after the increment and d
\* the result's duration, also when d is zero or absent.
C9_AvgAfterEveryObserve ==
    [][\A c \in Calls :
          ( /\ Executes(c)
            /\ Len(observed'[c]) = Len(observed[c]) + 1
            /\ HasKey(learning_data, "user_patterns") ) =>
              LET old == PatternOr(Patterns(learning_data), EndedKey(c))
                  et == results'[c][Len(results[c]) + 1].result.execution_time
                  d == IF et = None THEN Frac(0) ELSE et[1]
              IN  /\ HasKey(Patterns(learning_data'), EndedKey(c))
                  /\ Get(Patterns(learning_data'), EndedKey(c)).avg_execution_time =
                        MeanStep(old.avg_execution_time, d, old.count + 1)]_vars

\* C10: a pattern once created is never removed from the table and its
\* count never decreases.
C10_PatternsKeptCountMonotonic ==
    [][\A i \in 1..Len(Patterns(learning_data)) :
          LET k == Patterns(learning_data)[i][1]
          IN  /\ HasKey(Patterns(learning_data'), k)
              /\ Get(Patterns(learning_data'), k).count >=
                    Patterns(learning_data)[i][2].count]_vars

\* C10 witness: the stored pattern has been used again and a second pattern
\* has been created after it
C10_Witness ==
    /\ Len(Patterns(learning_data)) = 2
    /\ Patterns(learning_data)[1][2].count >= 3
    /\ Patterns(learning_data)[2][2].count >= 1

\* the keys of table ups
KeysOf(ups) == {ups[i][1] : i \in 1..Len(ups)}

\* C11: the pattern key of an observe() is the provider's name and the first
\* PrefixLen characters of the instruction text and nothing else (no
\* timestamp, context or priority): the observe() creates or updates the
\* pattern of exactly that key, so identical texts, and distinct texts with
\* the same prefix, meet in one pattern of the same provider.
C11_KeyFromProviderAndText ==
    [][\A c \in Calls :
          ( /\ Executes(c)
            /\ Len(observed'[c]) = Len(observed[c]) + 1
            /\ HasKey(learning_data, "user_patterns") ) =>
              LET k == agents[claims[c][idx[c]]] \o <<"_">> \o
                          SubSeq(text[c], 1, Min(PrefixLen, Len(text[c])))
                  old == Patterns(learning_data)
                  new == Patterns(learning_data')
              IN  /\ KeysOf(new) = KeysOf(old) \cup {k}
                  /\ Get(new, k).count = PatternOr(old, k).count + 1
                  /\ \A k2 \in KeysOf(old) \ {k} : Get(new, k2) = Get(old, k2)]_vars

\* C11 witness: two calls with distinct texts of the same prefix were both
\* observed for SystemAgent and the table holds one SystemAgent pattern, used
\* at least twice
C11_Witness ==
    \E c, d \in Calls :
        /\ Returned(c) /\ Returned(d)
        /\ text[c] = TextLongB /\ text[d] = TextLongUrl
        /\ 1 \in {observed[c][i] : i \in 1..Len(observed[c])}
        /\ 1 \in {observed[d][i] : i \in 1..Len(observed[d])}
        /\ HasKey(Patterns(learning_data), PatternKey(SystemAgentName, TextLongB))
        /\ Get(Patterns(learning_data), PatternKey(SystemAgentName, TextLongB)).count >= 2
        /\ \A k \in KeysOf(Patterns(learning_data)) :
              Take(k, Len(SystemAgentName)) = SystemAgentName =>
                  k = PatternKey(SystemAgentName, TextLongUrl)

\* C12: on a no-match the suggestions come from the learned patterns whose
\* success rate is above 0.8: each such pattern has a suggestion with its
\* instruction fragment in the returned list, a more recently used pattern's
\* before a less recently used one's.
C12_SuggestionsFromLearnedPatterns ==
    [][\A c \in Calls : \A t \in Texts :
          (Process(c, t) /\ capable_agents(t) = << >> /\ pc'[c] = "returned") =>
              LET ups == Patterns(learning_data)
                  sugg == outcome'[c].suggestions
                  Good == {i \in 1..Len(ups) : FGreater(ups[i][2].success_rate, <<4, 5>>)}
                  Frag(i) == SubSeq(ups[i][1], IndexFrom(ups[i][1], "_", 1) + 1, Len(ups[i][1]))
                  At(i) == {j \in 1..Len(sugg) : sugg[j] = SimilarTo(Frag(i))}
              IN  /\ \A i \in Good : At(i) # {}
                  /\ \A i1, i2 \in Good :
                        ( /\ ups[i1][2].last_used # None /\ ups[i2][2].last_used # None
                          /\ ups[i1][2].last_used[1] > ups[i2][2].last_used[1]
                          /\ Frag(i1) # Frag(i2) ) =>
                            \A j1 \in At(i1), j2 \in At(i2) : j1 < j2]_vars

\* C13 (as stated): in every call that executes providers the store is written
\* once, after all observe() updates of the batch and before the return, so
\* that when the call returns the store holds the table with every update.
C13_PersistAfterEveryBatch ==
    [][\A c \in Calls :
          Executes(c) =>
              IF pc'[c] = "awaiting"
              THEN writes' = writes /\ file' = file
              ELSE /\ writes' = writes + 1
                   /\ Returned(c)' =>
                         Patterns(load_learning_data(file')) = Patterns(learning_data')]_vars

\* C13 (amended): the same when learning is enabled in the configuration;
\* when it is disabled no call writes the store.
C13_PersistWhenEnabled ==
    [][\A c \in Calls :
          Executes(c) =>
              IF pc'[c] = "awaiting" \/ ~enabled
              THEN writes' = writes /\ file' = file
              ELSE /\ writes' = writes + 1
                   /\ Returned(c)' =>
                         Patterns(load_learning_data(file')) = Patterns(learning_data')]_vars

\* C13 witness: a batch of two observed executions has returned and the store,
\* written once, holds both patterns
C13_Witness ==
    \E c \in Calls :
        /\ Returned(c) /\ enabled /\ writes = 1
        /\ observed[c] = <<1, 2>>
        /\ Len(Patterns(load_learning_data(file))) = 2
        /\ Patterns(load_learning_data(file)) = Patterns(learning_data)

\* C14: whatever the store holds at start-up, later process() calls do not
\* fail because of it: the no-match path returns and no execution result is
\* the fault of a missing pattern table.
C14_LoadTolerated ==
    \A c \in Calls :
        /\ (pc[c] = "raised" => claims[c] # << >>)
        /\ \A i \in 1..Len(results[c]) :
              results[c][i].result.error # Some(KeyErrorMessage)

\* C15: a failed write of the store after a batch is never raised out of
\* process(): the call returns the outcome with the results computed and the
\* overall success.
C15_WriteFaultReturnsOutcome ==
    \A c \in Calls :
        (claims[c] # << >> /\ Len(executed[c]) = Len(claims[c])) =>
            /\ Returned(c)
            /\ "results" \in outcome[c].keys
            /\ outcome[c].success = AnySuccess(results[c])

\* C16: a non-empty table that has been persisted loads, as at construction,
\* to the identical table, and persisting the loaded table leaves the store
\* as it is.
C16_PersistLoadRoundTrip ==
    [][( /\ writes' = writes + 1
         /\ file'.kind = "json"
         /\ Patterns(learning_data') # << >> ) =>
            /\ load_learning_data(file') = learning_data'
            /\ FileAfterSave(file', load_learning_data(file'), TRUE, "ok") = file']_vars

\* C16 witness: the store holds a written table with a pattern that has been
\* used, and it loads to the table in memory
C16_Witness ==
    /\ writes >= 1
    /\ file.kind = "json"
    /\ \E i \in 1..Len(Patterns(load_learning_data(file))) :
          /\ Patterns(load_learning_data(file))[i][2].count >= 1
          /\ Patterns(load_learning_data(file))[i][2].last_used # None
    /\ load_learning_data(file) = learning_data

C18_RoutingFiltersInOrder ==
    [][\A c \in Calls : \A t \in Texts :
          Process(c, t) =>
              LET cl == claims'[c]
              IN  /\ \A i \in 1..Len(cl) :
                        cl[i] \in 1..Len(agents) /\ can_handle(agents[cl[i]], t)
                  /\ \A i, j \in 1..Len(cl) : i < j => cl[i] < cl[j]
                  /\ \A k \in 1..Len(agents) :
                        can_handle(agents[k], t) => \E i \in 1..Len(cl) : cl[i] = k]_vars

\* C18 witness: one call routed to SystemAgent alone (BrowserAgent dropped)
\* and one routed to both, in list order
C18_Witness ==
    \E c, d \in Calls :
        /\ text[c] = TextLongB /\ claims[c] = <<1>>
        /\ text[d] = TextLongUrl /\ claims[d] = <<1, 2>>

\* C19: between a call's first observe() of a batch and that call's persist()
\* no observe() and no persist() of another call takes place.
C19_LearningStoreCriticalSection ==
    [][\A c, d \in Calls :
          ( /\ c # d
            /\ pc[c] = "awaiting" /\ observed[c] # << >>
            /\ Executes(d) ) =>
              /\ observed'[d] = observed[d]
              /\ learning_data' = learning_data
              /\ writes' = writes
              /\ file' = file]_vars

\* C20: every process() call that has ended has reached NoMatch or Completed
\* and returned an outcome; a provider's time-out is a failed result of the
\* batch.
C20_EveryCallReturnsOutcome ==
    \A c \in Calls :
        /\ pc[c] \in {"idle", "awaiting", "returned"}
        /\ Returned(c) =>
              /\ outcome[c].keys # {}
              /\ \A i \in 1..Len(results[c]) :
                    results[c][i].result.error \in {Some(e) : e \in FailErrors} =>
                        ~results[c][i].result.success

\* C21 (as stated): all claimed providers of the batch have finished
\* executing before the first observe() of the batch is applied.
C21_ObserveAfterWholeBatch ==
    \A c \in Calls : observed[c] # << >> => Len(executed[c]) = Len(claims[c])

\* C21 (amended): the observe() of a provider that returned success = true is
\* called in the step in which its execute() returns, before the next claimed
\* provider starts (the pattern is counted at once when the table exists);
\* the store is written only after the last provider, and the call ends only
\* after every claimed provider has executed.
C21_ObserveAfterEachExecute ==
    [][\A c \in Calls :
          Executes(c) =>
              /\ (Ended(c).kind = "response" /\ Ended(c).success) =>
                    /\ observed'[c] = Append(observed[c], idx[c])
                    /\ HasKey(learning_data, "user_patterns") =>
                          /\ HasKey(Patterns(learning_data'), EndedKey(c))
                          /\ Get(Patterns(learning_data'), EndedKey(c)).count =
                                PatternOr(Patterns(learning_data), EndedKey(c)).count + 1
              /\ pc'[c] = "awaiting" =>
                    /\ writes' = writes /\ file' = file
                    /\ idx'[c] = idx[c] + 1
              /\ pc'[c] # "awaiting" => Len(executed'[c]) = Len(claims[c])]_vars

\* C21 witness: the first of two claimed providers has been observed and its
\* pattern is in the table while the second is still executing
C21_Witness ==
    \E c \in Calls :
        /\ pc[c] = "awaiting"
        /\ Len(claims[c]) = 2 /\ Len(executed[c]) = 1
        /\ observed[c] = <<1>>
        /\ HasKey(Patterns(learning_data), PatternKey(SystemAgentName, text[c]))
        /\ Get(Patterns(learning_data),
               PatternKey(SystemAgentName, text[c])).last_used = Some(now)
        /\ writes = 0

\* C22: the claimed providers are invoked one after the other in claim order:
\* the execute() a call is suspended in is the one after those that have
\* ended, and the executions that have ended are those of claims 1, 2, ...
C22_SequentialInClaimOrder ==
    \A c \in Calls :
        /\ pc[c] = "awaiting" =>
              /\ idx[c] = Len(executed[c]) + 1
              /\ idx[c] <= Len(claims[c])
        /\ \A j \in 1..Len(executed[c]) : executed[c][j].claim = j

\* C22 witness: the second provider's execute() is in progress after the
\* first one's has raised
C22_Witness ==
    \E c \in Calls :
        /\ pc[c] = "awaiting"
        /\ idx[c] = 2
        /\ Len(executed[c]) = 1
        /\ executed[c][1].kind = "raise"

\* how many times call c has invoked execute() of the agent at position i of
\* self.agents: the executions that ended and the one in progress
Invocations(c, i) ==
    Cardinality({j \in 1..Len(executed[c]) : claims[c][executed[c][j].claim] = i})
    + (IF pc[c] = "awaiting" /\ claims[c][idx[c]] = i THEN 1 ELSE 0)

\* C23: in one call execute() is invoked at most once on each provider, never
\* on a provider that did not claim the instruction, and exactly once on each
\* claiming provider by the time the call has ended.
C23_EachClaimExecutedOnce ==
    \A c \in Calls : \A i \in 1..Len(agents) :
        LET claimed == \E j \in 1..Len(claims[c]) : claims[c][j] = i
        IN  /\ Invocations(c, i) <= 1
            /\ ~claimed => Invocations(c, i) = 0
            /\ (pc[c] \in {"returned", "raised"} /\ claimed) => Invocations(c, i) = 1

\* C23 witness: a call has ended whose first provider failed and whose second
\* provider raised; each was invoked once
C23_Witness ==
    \E c \in Calls :
        /\ Returned(c)
        /\ Len(claims[c]) = 2 /\ Len(executed[c]) = 2
        /\ executed[c][1].kind = "response" /\ ~executed[c][1].success
        /\ executed[c][2].kind = "raise"
        /\ Invocations(c, 1) = 1 /\ Invocations(c, 2) = 1

\* C24: the Instruction built by a process() call that is not the first has a
\* timestamp that is not earlier than the moment of that call.
C24_OwnCreationTimestamp ==
    [][\A c \in Calls : \A t \in Texts :
          (Process(c, t) /\ started >= 1) =>
              instruction_timestamp'[c][1] >= now']_vars

\* the orchestrator started with an empty learning table
StartedEmpty == loaded = DefaultLearningData

\* the pattern key made of an agent name and a text prefix
KeyOf(k) == k[1] \o <<"_">> \o k[2]

\* C25: on an orchestrator started with an empty table, once all calls have
\* ended, under any interleaving of them, the count of each pattern is the
\* number of successful executions of its (provider name, first 50
\* characters) and there is no pattern without a successful execution.
C25_CountsEqualSuccesses ==
    (StartedEmpty /\ \A c \in Calls : pc[c] # "awaiting") =>
        /\ \A k \in ExecutionKeys :
              IF succeeded[k] = 0
              THEN ~HasKey(Patterns(learning_data), KeyOf(k))
              ELSE /\ HasKey(Patterns(learning_data), KeyOf(k))
                   /\ Get(Patterns(learning_data), KeyOf(k)).count = succeeded[k]
        /\ KeysOf(Patterns(learning_data)) \subseteq {KeyOf(k) : k \in ExecutionKeys}

\* C25 witness: two calls that overlapped have both returned; SystemAgent
\* succeeded in both and BrowserAgent failed in one, so one pattern counts two
\* and there is no other
C25_Witness ==
    /\ StartedEmpty
    /\ Returned(1) /\ Returned(2)
    /\ executed[1] # << >> /\ executed[1][1].success
    /\ Len(executed[2]) = 2 /\ executed[2][1].success /\ ~executed[2][2].success
    /\ Len(Patterns(learning_data)) = 1
    /\ Patterns(learning_data)[1][2].count = 2

\* C26: starting from an empty table, in every reachable state every pattern
\* has count >= 1 and success_rate exactly 1.
C26_FreshPatternsRateOne ==
    StartedEmpty =>
        \A i \in 1..Len(Patterns(learning_data)) :
            /\ Patterns(learning_data)[i][2].count >= 1
            /\ Patterns(learning_data)[i][2].success_rate = Frac(1)

\* C26 witness: SystemAgent failed in one call and succeeded in the other,
\* BrowserAgent succeeded in both; the two patterns count one and two at rate 1
C26_Witness ==
    /\ StartedEmpty
    /\ \E c \in Calls : executed[c] # << >> /\ ~executed[c][1].success
    /\ succeeded[<<SystemAgentName, Take(TextLongB, PrefixLen)>>] = 1
    /\ succeeded[<<BrowserAgentName, Take(TextLongB, PrefixLen)>>] = 2
    /\ Len(Patterns(learning_data)) = 2
    /\ Get(Patterns(learning_data), PatternKey(BrowserAgentName, TextLongB)).count = 2
    /\ Get(Patterns(learning_data),
           PatternKey(BrowserAgentName, TextLongB)).success_rate = Frac(1)

C28_StoreEqualsMemoryAtReturn ==
    [][\A c \in Calls :
          (Executes(c) /\ enabled /\ Returned(c)') =>
              /\ file'.kind = "json"
              /\ load_learning_data(file') = learning_data']_vars

\* C28 witness: a call whose only execution failed has returned while another
\* call, which has observed one, is still executing; the store holds the
\* other call's pattern
C28_Witness ==
    \E c, d \in Calls :
        /\ enabled /\ StartedEmpty
        /\ Returned(c) /\ Len(executed[c]) = 1 /\ observed[c] = << >>
        /\ pc[d] = "awaiting" /\ observed[d] = <<1>>
        /\ file.kind = "json"
        /\ Len(Patterns(load_learning_data(file))) = 1
        /\ load_learning_data(file) = learning_data

\* C29: with learning disabled no step of a call writes the store, and a
\* successful execution still updates the table in memory.
C29_DisabledNoWriteStillLearns ==
    [][~enabled =>
          /\ file' = file /\ writes' = writes
          /\ \A c \in Calls :
                (Executes(c) /\ Ended(c).kind = "response" /\ Ended(c).success) =>
                    /\ HasKey(Patterns(learning_data'), EndedKey(c))
                    /\ Get(Patterns(learning_data'), EndedKey(c)).count =
                          PatternOr(Patterns(learning_data), EndedKey(c)).count + 1]_vars

\* the entry that the execute() ending in this step of call c appends
EndedEntry(c) == results'[c][Len(results[c]) + 1]

\* C30: BrowserAgent.execute reports all() of its actions' flags, so on a
\* claimed instruction that parses to zero actions its response has
\* success = true, the overall outcome is successful and a pattern is recorded.
C30_NoActionsCountAsSuccess ==
    [][\A c \in Calls :
          ( /\ Executes(c)
            /\ agents[claims[c][idx[c]]] = BrowserAgentName
            /\ EndedEntry(c).result.keys = AsdictKeys
            /\ EndedEntry(c).result.error = None ) =>
              /\ Ended(c).success \in BrowserReports(text[c])
              /\ parse_instruction_to_actions(text[c]) = << >> =>
                    /\ Ended(c).success
                    /\ EndedEntry(c).result.success
                    /\ Returned(c)' => outcome'[c].success
                    /\ HasKey(Patterns(learning_data'), EndedKey(c))
                    /\ Get(Patterns(learning_data'), EndedKey(c)).count =
                          PatternOr(Patterns(learning_data), EndedKey(c)).count + 1]_vars

====
